---- MODULE Spec2Model ----
(***************************************************************************)
(* Model of claninfo.py: the retry/backoff loop of                         *)
(* fetch_clan_data_auto_tables, the recursive _flatten_json, the writer    *)
(* save_tables_to_csv and the entry point getnewData.                      *)
(*                                                                         *)
(* Strings are sequences of one-character strings, so that the dot-joined  *)
(* table names and the filename sanitisation are computed character by     *)
(* character, as the code computes them.                                   *)
(***************************************************************************)
EXTENDS Integers, Sequences, FiniteSets, TLC

VARIABLES
    pc,             \* control location of the run
    CLAN_TAG,       \* module-level configuration (os.getenv), "None" when unset
    USER_TAG,
    max_retries,    \* parameters of fetch_clan_data_auto_tables
    backoff_factor, \* a positive rational <<numerator, denominator>>
    attempt,        \* loop variable of the retry loop
    log,            \* requests issued and sleeps performed, in order
    outcomes,       \* what each request produced (a status or an exception)
    data,           \* the JSON value handed to _flatten_json
    parent_key,     \* the starting label handed to _flatten_json
    out,            \* the mapping _flatten_json returned
    tables,         \* the mapping of table name to DataFrame
    todo,           \* tables the writer loop has not visited yet
    files           \* files on disk under output_dir: path and content

vars == <<pc, CLAN_TAG, USER_TAG, max_retries, backoff_factor, attempt, log,
          outcomes, data, parent_key, out, tables, todo, files>>

(***************************************************************************)
(* Bounds of the model.                                                    *)
(***************************************************************************)
MaxRetriesCap == 3      \* max_retries ranges over 0..MaxRetriesCap
MaxNodes == 4           \* JSON inputs of _flatten_json have at most this many nodes
BodyNodes == 2          \* 200 bodies of the run have at most this many nodes
MaxElems == 2           \* arrays of the array documents have at most this many elements

BackoffFactors == {<<3, 2>>, <<1, 1>>, <<1, 2>>}
Tags == {"None", "#tag"}
Keys == {<<"a">>, <<"b">>}
Scalars == {1, 2}
Root == <<"r", "o", "o", "t">>
Labels == {Root, <<"t">>}

(***************************************************************************)
(* JSON values.  A node is a scalar, a dict (kids: the items in insertion  *)
(* order, each a key and a node) or a list (kids: the elements, each with  *)
(* the empty key).                                                         *)
(***************************************************************************)
Item(k, n) == [k |-> k, n |-> n]
Scalar(v) == [t |-> "scalar", v |-> v, kids |-> <<>>]
Dict(items) == [t |-> "dict", v |-> 0, kids |-> items]
List(elems) == [t |-> "list", v |-> 0,
                kids |-> [i \in 1..Len(elems) |-> Item(<<>>, elems[i])]]

IsNested(n) == n.t \in {"dict", "list"}

RECURSIVE JsonOfSize(_), ItemSeqs(_, _), ElemSeqs(_)
\* all JSON values with exactly n nodes, over Keys and Scalars
JsonOfSize(n) ==
    IF n = 1
    THEN {Scalar(v) : v \in Scalars} \cup {Dict(<<>>), List(<<>>)}
    ELSE {Dict(items) : items \in ItemSeqs(n - 1, Keys)}
         \cup {List(elems) : elems \in ElemSeqs(n - 1)}
\* item sequences with distinct keys from ks whose nodes number m in total
ItemSeqs(m, ks) ==
    IF m = 0 THEN {<<>>}
    ELSE UNION {UNION {{<<Item(k, n)>> \o rest :
                            n \in JsonOfSize(s), rest \in ItemSeqs(m - s, ks \ {k})}
                       : s \in 1..m}
                : k \in ks}
\* element sequences whose nodes number m in total
ElemSeqs(m) ==
    IF m = 0 THEN {<<>>}
    ELSE UNION {{<<n>> \o rest : n \in JsonOfSize(s), rest \in ElemSeqs(m - s)}
                : s \in 1..m}

\* all JSON values with at most n nodes
JsonUpTo(n) == UNION {JsonOfSize(s) : s \in 1..n}

\* the largest of these values, each nested one level deeper as the only
\* field of a dict
WrappedDocs == {Dict(<<Item(<<"a">>, n)>>) : n \in JsonOfSize(MaxNodes)}

\* dicts all of whose fields are scalars, with at most one field
ScalarOnlyDicts ==
    {Dict(<<>>)} \cup {Dict(<<Item(k, Scalar(v))>>) : k \in Keys, v \in Scalars}

RECURSIVE SeqsUpTo(_, _)
SeqsUpTo(S, n) ==
    IF n = 0 THEN {<<>>}
    ELSE {<<>>} \cup {<<x>> \o rest : x \in S, rest \in SeqsUpTo(S, n - 1)}

DottedKey == <<"a", ".", "b">>

\* a dict with a field f holding an array of scalar-only dicts, alone or next
\* to one scalar field
ArrayDocs ==
    LET arrays == {List(e) : e \in SeqsUpTo(ScalarOnlyDicts, MaxElems)}
        fs == Keys \cup {DottedKey}
        fg == {p \in fs \X Keys : p[1] # p[2]}
    IN  {Dict(<<Item(f, a)>>) : f \in fs, a \in arrays}
        \cup {Dict(<<Item(p[2], Scalar(1)), Item(p[1], a)>>) : p \in fg, a \in arrays}
        \cup {Dict(<<Item(p[1], a), Item(p[2], Scalar(2))>>) : p \in fg, a \in arrays}

\* a dict with the dotted key "a.b" next to the nested path a, b it spells
DottedDocs ==
    LET arrays == {List(e) : e \in SeqsUpTo(ScalarOnlyDicts, MaxElems)}
    IN  UNION {{Dict(<<Item(<<"a">>, Dict(<<Item(<<"b">>, x)>>)), Item(DottedKey, y)>>),
                Dict(<<Item(DottedKey, y), Item(<<"a">>, Dict(<<Item(<<"b">>, x)>>))>>)}
               : x \in ScalarOnlyDicts, y \in arrays}

JsonValues == JsonUpTo(MaxNodes) \cup WrappedDocs \cup ArrayDocs \cup DottedDocs

\* dicts whose keys need sanitising: "#" and "_" both become "_"
HashDocs ==
    {Dict(<<Item(<<"#">>, x), Item(<<"_">>, y)>>) :
        x \in ScalarOnlyDicts, y \in ScalarOnlyDicts}

Bodies == JsonUpTo(BodyNodes) \cup HashDocs

(***************************************************************************)
(* _flatten_json.  The mapping out (a defaultdict(list)) is the sequence   *)
(* of its entries in insertion order; a row is the sequence of its         *)
(* (key, value) pairs in insertion order.                                  *)
(***************************************************************************)
HasKey(m, key) == \E i \in 1..Len(m) : m[i].name = key

\* faulty variant: out[parent_key] = [row], the bucket keeps its last row only
AppendRowOverwrites(m, key, row) ==
    IF HasKey(m, key)
    THEN [i \in 1..Len(m) |-> IF m[i].name = key THEN [name |-> key, rows |-> <<row>>] ELSE m[i]]
    ELSE Append(m, [name |-> key, rows |-> <<row>>])

\* out[parent_key].append(row)
AppendRow(m, key, row) ==
    IF HasKey(m, key)
    THEN [i \in 1..Len(m) |->
            IF m[i].name = key
            THEN [name |-> key, rows |-> Append(m[i].rows, row)]
            ELSE m[i]]
    ELSE Append(m, [name |-> key, rows |-> <<row>>])

\* faulty variant: the child's table is named by the key alone
ChildKeyDropsParent(parent, k) == k

\* f"{parent_key}.{k}"
ChildKey(parent, k) == parent \o <<".">> \o k

\* faulty variant: the first item of the dict is skipped
ScalarRowSkipsFirst(items) ==
    LET sc == SelectSeq(SubSeq(items, 2, Len(items)), LAMBDA it : ~IsNested(it.n))
    IN  [i \in 1..Len(sc) |-> [k |-> sc[i].k, v |-> sc[i].n.v]]

\* row[k] = v for the scalar-valued items, in iteration order
ScalarRow(items) ==
    LET sc == SelectSeq(items, LAMBDA it : ~IsNested(it.n))
    IN  [i \in 1..Len(sc) |-> [k |-> sc[i].k, v |-> sc[i].n.v]]

RECURSIVE flatten_json(_, _, _), FlattenItems(_, _, _, _), FlattenElems(_, _, _, _)
\* faulty variant: the row is appended even when it is empty (no "if row:")
flatten_json_AppendsEmptyRow(obj, parent, m) ==
    IF obj.t = "dict"
    THEN AppendRow(FlattenItems(obj.kids, 1, parent, m), parent, ScalarRow(obj.kids))
    ELSE IF obj.t = "list"
    THEN FlattenElems(obj.kids, 1, parent, m)
    ELSE m

flatten_json(obj, parent, m) ==
    IF obj.t = "dict"
    THEN LET m1 == FlattenItems(obj.kids, 1, parent, m)
             row == ScalarRow(obj.kids)
         IN  IF row # <<>> THEN AppendRow(m1, parent, row) ELSE m1
    ELSE IF obj.t = "list"
    THEN FlattenElems(obj.kids, 1, parent, m)
    ELSE m
\* for k, v in obj.items(): recurse into the nested values
FlattenItems(items, i, parent, m) ==
    IF i > Len(items) THEN m
    ELSE FlattenItems(items, i + 1, parent,
            IF IsNested(items[i].n)
            THEN flatten_json(items[i].n, ChildKey(parent, items[i].k), m)
            ELSE m)
\* for item in obj: recurse with the same parent_key
FlattenElems(elems, i, parent, m) ==
    IF i > Len(elems) THEN m
    ELSE FlattenElems(elems, i + 1, parent, flatten_json(elems[i].n, parent, m))

(***************************************************************************)
(* DataFrames.  pd.DataFrame(rows) keeps the rows; its columns are the     *)
(* keys seen in the rows; it is empty when either axis has length 0.       *)
(***************************************************************************)
DataFrame(rows) == [rows |-> rows]
Columns(df) == UNION {{df.rows[i][j].k : j \in 1..Len(df.rows[i])} : i \in 1..Len(df.rows)}
Empty(df) == Len(df.rows) = 0 \/ Columns(df) = {}

\* dfs[table_name] = pd.DataFrame(rows) for every table
ToFrames(m) == [i \in 1..Len(m) |-> [name |-> m[i].name, df |-> DataFrame(m[i].rows)]]

(***************************************************************************)
(* save_tables_to_csv                                                      *)
(***************************************************************************)
SafeChars ==
    {"a", "b", "c", "d", "e", "f", "g", "h", "i", "j", "k", "l", "m",
     "n", "o", "p", "q", "r", "s", "t", "u", "v", "w", "x", "y", "z",
     "A", "B", "C", "D", "E", "F", "G", "H", "I", "J", "K", "L", "M",
     "N", "O", "P", "Q", "R", "S", "T", "U", "V", "W", "X", "Y", "Z",
     "0", "1", "2", "3", "4", "5", "6", "7", "8", "9", "_", ".", "-"}

\* re.sub(r"[^a-zA-Z0-9_.-]", "_", table_name)
SafeName(name) ==
    [i \in 1..Len(name) |-> IF name[i] \in SafeChars THEN name[i] ELSE "_"]

OutputDir == <<"d", "o", "w", "n", "l", "o", "a", "d">>

\* os.path.join(output_dir, f"{safe_name}.csv")
FilePath(name) == OutputDir \o <<"/">> \o SafeName(name) \o <<".", "c", "s", "v">>

\* df.to_csv(file_path): creates the file or replaces its content
WriteFile(fs, path, df) ==
    IF \E i \in 1..Len(fs) : fs[i].path = path
    THEN [i \in 1..Len(fs) |-> IF fs[i].path = path THEN [path |-> path, df |-> df] ELSE fs[i]]
    ELSE Append(fs, [path |-> path, df |-> df])

(***************************************************************************)
(* The retry loop of fetch_clan_data_auto_tables                           *)
(***************************************************************************)
\* faulty variant: backoff_factor * attempt
PowIsProduct(f, n) == <<f[1] * n, f[2]>>

RECURSIVE Pow(_, _)
\* backoff_factor ** attempt
Pow(f, n) == IF n = 0 THEN <<1, 1>> ELSE <<f[1] * Pow(f, n - 1)[1], f[2] * Pow(f, n - 1)[2]>>

Request(a) == [e |-> "request", attempt |-> a, wait |-> <<0, 1>>]
Sleep(a, w) == [e |-> "sleep", attempt |-> a, wait |-> w]
Response(code) == [exc |-> FALSE, status_code |-> code]
RequestException == [exc |-> TRUE, status_code |-> 0]

StatusCodes == {200, 201, 404, 429, 500, 503}

\* faulty variant: range(1, max_retries + 2), one attempt too many
LoopFromOneMore(next) == IF next <= max_retries + 1 THEN "attempting" ELSE "exhausted"

\* for attempt in range(1, max_retries + 1): the loop goes on, or is left
\* and line 142 raises
LoopFrom(next) == IF next <= max_retries THEN "attempting" ELSE "exhausted"

\* faulty variant: no sleep after the failure of the last allowed attempt
RetrySkipsLastSleep(r) ==
    /\ pc = "attempting"
    /\ log' = IF attempt < max_retries
              THEN log \o <<Request(attempt), Sleep(attempt, Pow(backoff_factor, attempt))>>
              ELSE Append(log, Request(attempt))
    /\ outcomes' = Append(outcomes, r)
    /\ attempt' = attempt + 1
    /\ pc' = LoopFrom(attempt + 1)
    /\ UNCHANGED <<CLAN_TAG, USER_TAG, max_retries, backoff_factor, data, parent_key,
                   out, tables, todo, files>>

\* the three transient branches: a request, then wait = backoff_factor ** attempt,
\* time.sleep(wait), and the next iteration
Retry(r) ==
    /\ pc = "attempting"
    /\ log' = log \o <<Request(attempt), Sleep(attempt, Pow(backoff_factor, attempt))>>
    /\ outcomes' = Append(outcomes, r)
    /\ attempt' = attempt + 1
    /\ pc' = LoopFrom(attempt + 1)
    /\ UNCHANGED <<CLAN_TAG, USER_TAG, max_retries, backoff_factor, data, parent_key,
                   out, tables, todo, files>>

Init ==
    /\ pc = "start"
    /\ CLAN_TAG \in Tags
    /\ USER_TAG \in Tags
    /\ max_retries \in 0..MaxRetriesCap
    /\ backoff_factor \in BackoffFactors
    /\ attempt = 0
    /\ log = <<>>
    /\ outcomes = <<>>
    /\ data = Scalar(0)
    /\ parent_key = Root
    /\ out = <<>>
    /\ tables = <<>>
    /\ todo = <<>>
    /\ files = <<>>

\* getnewData calls the fetcher: lines 89-90 need both tags to be strings
\* (None has no replace), then the loop is entered
Fetch ==
    /\ pc = "start"
    /\ IF CLAN_TAG = "None" \/ USER_TAG = "None"
       THEN pc' = "attribute_error" /\ UNCHANGED attempt
       ELSE pc' = LoopFrom(1) /\ attempt' = 1
    /\ UNCHANGED <<CLAN_TAG, USER_TAG, max_retries, backoff_factor, log, outcomes,
                   data, parent_key, out, tables, todo, files>>

RateLimited ==
    /\ Retry(Response(429))

ServerError ==
    /\ \E code \in StatusCodes :
        /\ code # 429
        /\ code >= 500
        /\ Retry(Response(code))

NetworkError ==
    /\ Retry(RequestException)

\* faulty variant: every non-200 status is retried like a server error
HardFailRetries ==
    \E code \in StatusCodes :
        /\ code # 429
        /\ ~(code >= 500)
        /\ code # 200
        /\ Retry(Response(code))

\* faulty variant: no raise, the body of the error response is parsed, flattened and saved
HardFailFallsThrough ==
    /\ pc = "attempting"
    /\ \E code \in StatusCodes :
        /\ code # 429
        /\ ~(code >= 500)
        /\ code # 200
        /\ outcomes' = Append(outcomes, Response(code))
    /\ \E body \in Bodies :
        /\ data' = body
        /\ out' = flatten_json(body, Root, <<>>)
        /\ tables' = ToFrames(flatten_json(body, Root, <<>>))
        /\ todo' = ToFrames(flatten_json(body, Root, <<>>))
    /\ log' = Append(log, Request(attempt))
    /\ pc' = "saving"
    /\ UNCHANGED <<CLAN_TAG, USER_TAG, max_retries, backoff_factor, attempt,
                   parent_key, files>>

HardFail ==
    /\ pc = "attempting"
    /\ \E code \in StatusCodes :
        /\ code # 429
        /\ ~(code >= 500)
        /\ code # 200
        /\ outcomes' = Append(outcomes, Response(code))
    /\ log' = Append(log, Request(attempt))
    /\ pc' = "hard_fail"
    /\ UNCHANGED <<CLAN_TAG, USER_TAG, max_retries, backoff_factor, attempt, data,
                   parent_key, out, tables, todo, files>>

\* a 200: the body, a JSON document, is parsed, flattened and returned as
\* DataFrames; getnewData goes on to save_tables_to_csv
Success ==
    /\ pc = "attempting"
    /\ \E body \in Bodies :
        /\ data' = body
        /\ out' = flatten_json(body, Root, <<>>)
        /\ tables' = ToFrames(flatten_json(body, Root, <<>>))
        /\ todo' = ToFrames(flatten_json(body, Root, <<>>))
    /\ log' = Append(log, Request(attempt))
    /\ outcomes' = Append(outcomes, Response(200))
    /\ pc' = "saving"
    /\ UNCHANGED <<CLAN_TAG, USER_TAG, max_retries, backoff_factor, attempt,
                   parent_key, files>>

\* one iteration of the writer loop
SaveTable ==
    /\ pc = "saving"
    /\ todo # <<>>
    /\ files' = IF Empty(Head(todo).df)
                THEN files
                ELSE WriteFile(files, FilePath(Head(todo).name), Head(todo).df)
    /\ todo' = Tail(todo)
    /\ UNCHANGED <<pc, CLAN_TAG, USER_TAG, max_retries, backoff_factor, attempt, log,
                   outcomes, data, parent_key, out, tables>>

\* the writer loop ends and getnewData returns
SaveReturn ==
    /\ pc = "saving"
    /\ todo = <<>>
    /\ pc' = "done"
    /\ UNCHANGED <<CLAN_TAG, USER_TAG, max_retries, backoff_factor, attempt, log,
                   outcomes, data, parent_key, out, tables, todo, files>>

Next ==
    \/ Fetch
    \/ RateLimited
    \/ ServerError
    \/ NetworkError
    \/ HardFail
    \/ Success
    \/ SaveTable
    \/ SaveReturn

Spec == Init /\ [][Next]_vars

(***************************************************************************)
(* _flatten_json on its own: any JSON value, any starting label            *)
(***************************************************************************)
FlattenInit ==
    /\ pc = "flatten_call"
    /\ CLAN_TAG = "#tag"
    /\ USER_TAG = "#tag"
    /\ max_retries = 0
    /\ backoff_factor = <<3, 2>>
    /\ attempt = 0
    /\ log = <<>>
    /\ outcomes = <<>>
    /\ data \in JsonValues
    /\ parent_key \in Labels
    /\ out = <<>>
    /\ tables = <<>>
    /\ todo = <<>>
    /\ files = <<>>

FlattenCall ==
    /\ pc = "flatten_call"
    /\ out' = flatten_json(data, parent_key, <<>>)
    /\ pc' = "flatten_return"
    /\ UNCHANGED <<CLAN_TAG, USER_TAG, max_retries, backoff_factor, attempt, log,
                   outcomes, data, parent_key, tables, todo, files>>

FlattenNext ==
    \/ FlattenCall

FlattenSpec == FlattenInit /\ [][FlattenNext]_vars

(***************************************************************************)
(* Vocabulary of the properties of _flatten_json.  A position is the       *)
(* sequence of child indices leading from the top of a value to one of     *)
(* its nodes.                                                              *)
(***************************************************************************)
RECURSIVE Positions(_), At(_, _), KeysAlong(_, _), Depth(_), DotJoin(_)
Positions(n) ==
    {<<>>} \cup UNION {{<<i>> \o p : p \in Positions(n.kids[i].n)} : i \in 1..Len(n.kids)}
At(n, p) == IF p = <<>> THEN n ELSE At(n.kids[p[1]].n, Tail(p))
\* the dict keys met on the way to position p; stepping into a list element adds none
KeysAlong(n, p) ==
    IF p = <<>> THEN <<>>
    ELSE (IF n.t = "dict" THEN <<n.kids[p[1]].k>> ELSE <<>>)
         \o KeysAlong(n.kids[p[1]].n, Tail(p))
\* levels of nesting: 0 for a scalar, 1 for a container of scalars, ...
Depth(n) ==
    IF n.t = "scalar" THEN 0
    ELSE LET ds == {Depth(n.kids[i].n) : i \in 1..Len(n.kids)} \cup {0}
         IN  1 + CHOOSE d \in ds : \A e \in ds : e <= d
\* ".".join(parts)
DotJoin(parts) ==
    IF Len(parts) = 1 THEN parts[1] ELSE parts[1] \o <<".">> \o DotJoin(Tail(parts))

\* a dict as a set of (key, value) pairs: its scalar fields
ScalarFields(n) ==
    {<<n.kids[i].k, n.kids[i].n.v>> : i \in {j \in 1..Len(n.kids) : n.kids[j].n.t = "scalar"}}
\* a row as a set of (key, value) pairs
RowDict(row) == {<<row[i].k, row[i].v>> : i \in 1..Len(row)}
\* the row is the dict with exactly these fields
RowIs(row, fields) == RowDict(row) = fields /\ Len(row) = Cardinality(fields)

ScalarOnly(n) == n.t = "dict" /\ \A i \in 1..Len(n.kids) : n.kids[i].n.t = "scalar"
\* positions of the dicts that have at least one scalar field
RowPositions(n) ==
    {p \in Positions(n) : At(n, p).t = "dict" /\ ScalarFields(At(n, p)) # {}}
\* the table name the nesting path of position p spells
PathName(label, n, p) == DotJoin(<<label>> \o KeysAlong(n, p))

TableNames(m) == {m[i].name : i \in 1..Len(m)}
\* the rows of table name, none when there is no such table
Bucket(m, name) ==
    IF HasKey(m, name) THEN m[CHOOSE i \in 1..Len(m) : m[i].name = name].rows ELSE <<>>
RECURSIVE TotalRows(_)
TotalRows(m) == IF m = <<>> THEN 0 ELSE Len(Head(m).rows) + TotalRows(Tail(m))

FlattenReturned == pc = "flatten_return"

(***************************************************************************)
(* Properties of _flatten_json, checked under FlattenSpec                  *)
(***************************************************************************)

\* C4 as stated: for any dict all of whose fields are scalars, flattening
\* from "root" yields exactly one table, "root", holding exactly one row,
\* which equals the dict.
C4_AnyScalarOnlyDict ==
    (FlattenReturned /\ parent_key = Root /\ ScalarOnly(data)) =>
        /\ Len(out) = 1
        /\ out[1].name = Root
        /\ Len(out[1].rows) = 1
        /\ RowIs(out[1].rows[1], ScalarFields(data))

\* C4 amended: for any dict with at least one field, all of whose fields are
\* scalars, flattening from "root" yields exactly one table, "root", holding
\* exactly one row, which equals the dict.
C4_NonEmptyScalarOnlyDict ==
    (FlattenReturned /\ parent_key = Root /\ ScalarOnly(data) /\ data.kids # <<>>) =>
        /\ Len(out) = 1
        /\ out[1].name = Root
        /\ Len(out[1].rows) = 1
        /\ RowIs(out[1].rows[1], ScalarFields(data))

C4_Witness ==
    /\ FlattenReturned
    /\ parent_key = Root
    /\ ScalarOnly(data)
    /\ Len(data.kids) = 2
    /\ Len(out) = 1

\* the fields of a dict whose value is an array of scalar-only dicts
ArrayFields(n) ==
    {i \in 1..Len(n.kids) :
        /\ n.kids[i].n.t = "list"
        /\ \A j \in 1..Len(n.kids[i].n.kids) : ScalarOnly(n.kids[i].n.kids[j].n)}

\* for field i of data (an array of N dicts): table root.<field> has exactly
\* N rows (none when there is no such table), the j-th equal to the j-th
\* element, and the "root" table holds one row of exactly the scalar fields of
\* data when it has any
ArrayFieldTabled(i) ==
    LET f == data.kids[i].k
        elems == data.kids[i].n.kids
        rows == Bucket(out, ChildKey(Root, f))
    IN  /\ Len(rows) = Len(elems)
        /\ \A j \in 1..Len(elems) : RowIs(rows[j], ScalarFields(elems[j].n))
        /\ ScalarFields(data) # {} =>
              /\ Len(Bucket(out, Root)) = 1
              /\ RowIs(Bucket(out, Root)[1], ScalarFields(data))

C6_TableNamesAreNestingPaths ==
    (FlattenReturned /\ Depth(data) >= 3) =>
        /\ TableNames(out) = {PathName(parent_key, data, p) : p \in RowPositions(data)}
        /\ \A p \in RowPositions(data) :
              \E j \in 1..Len(Bucket(out, PathName(parent_key, data, p))) :
                  RowIs(Bucket(out, PathName(parent_key, data, p))[j],
                        ScalarFields(At(data, p)))

\* a row three dicts down, below a list
C6_Witness ==
    /\ FlattenReturned
    /\ Depth(data) >= 4
    /\ \E p \in RowPositions(data) :
        /\ Len(p) = 3
        /\ Len(KeysAlong(data, p)) = 2
        /\ HasKey(out, ChildKey(ChildKey(parent_key, KeysAlong(data, p)[1]),
                                KeysAlong(data, p)[2]))

\* C9: each dict with at least one scalar field gives exactly one row, made
\* of exactly its scalar fields, to the bucket of its own path, and nothing
\* else gives a row: the rows number as many as those dicts, every bucket
\* has a row, and in every bucket each row occurs as often as there are
\* such dicts with that path and those fields.
C9_OneRowPerDictWithScalars ==
    FlattenReturned =>
        /\ TotalRows(out) = Cardinality(RowPositions(data))
        /\ \A i \in 1..Len(out) : out[i].rows # <<>>
        /\ \A i, j \in 1..Len(out) : out[i].name = out[j].name => i = j
        /\ \A p \in RowPositions(data) : HasKey(out, PathName(parent_key, data, p))
        /\ \A i \in 1..Len(out) : \A j \in 1..Len(out[i].rows) :
              /\ out[i].rows[j] # <<>>
              /\ Cardinality({l \in 1..Len(out[i].rows) :
                                RowDict(out[i].rows[l]) = RowDict(out[i].rows[j])})
                 = Cardinality({p \in RowPositions(data) :
                                /\ PathName(parent_key, data, p) = out[i].name
                                /\ RowIs(out[i].rows[j], ScalarFields(At(data, p)))})

\* a dict without scalar fields above one with, and a scalar inside a list
C9_Witness ==
    /\ FlattenReturned
    /\ data.t = "dict"
    /\ ScalarFields(data) = {}
    /\ \E p \in Positions(data) :
        /\ p # <<>>
        /\ At(data, p).t = "scalar"
        /\ At(data, SubSeq(p, 1, Len(p) - 1)).t = "list"
    /\ TotalRows(out) = 1

(***************************************************************************)
(* Vocabulary of the properties of the run                                 *)
(***************************************************************************)
Requests == SelectSeq(log, LAMBDA ev : ev.e = "request")
Sleeps == SelectSeq(log, LAMBDA ev : ev.e = "sleep")

Transient(o) == o.exc \/ o.status_code = 429 \/ o.status_code >= 500
Hard(o) == ~o.exc /\ o.status_code \notin {200, 429} /\ o.status_code < 500
TransientCount == Cardinality({i \in 1..Len(outcomes) : Transient(outcomes[i])})

FetchCalled == pc \in {"attempting", "hard_fail", "exhausted", "saving", "done"}
FetchReturned == pc \in {"saving", "done"}

\* rationals <<numerator, denominator>> with positive denominators
RatEq(x, y) == x[1] * y[2] = y[1] * x[2]
RatLess(x, y) == x[1] * y[2] < y[1] * x[2]
RECURSIVE IntPower(_, _)
IntPower(b, e) == IF e = 0 THEN 1 ELSE b * IntPower(b, e - 1)
\* backoff_factor to the power i
FactorToThe(i) == <<IntPower(backoff_factor[1], i), IntPower(backoff_factor[2], i)>>

(***************************************************************************)
(* Properties of the run, checked under Spec                               *)
(***************************************************************************)

\* C1: when the first k responses (0 <= k < max_retries) are 429 and response
\* k+1 is 200, there are exactly k+1 requests and k sleeps, each sleep right
\* after its request and before the next one, the i-th lasting
\* backoff_factor^i (strictly longer each time for a factor above 1), and the
\* call returns the flattened 200 body.
C1_RateLimitedThenOk ==
    \A k \in 0..(max_retries - 1) :
        (/\ Len(outcomes) = k + 1
         /\ \A i \in 1..k : outcomes[i] = Response(429)
         /\ outcomes[k + 1] = Response(200))
        =>
        /\ Len(Requests) = k + 1
        /\ Len(Sleeps) = k
        /\ Len(log) = 2 * k + 1
        /\ \A i \in 1..k :
              /\ log[2 * i - 1].e = "request"
              /\ log[2 * i].e = "sleep"
              /\ RatEq(log[2 * i].wait, FactorToThe(i))
        /\ log[2 * k + 1].e = "request"
        /\ RatLess(<<1, 1>>, backoff_factor) =>
              \A i \in 1..(k - 1) : RatLess(Sleeps[i].wait, Sleeps[i + 1].wait)
        /\ FetchReturned
        /\ out = flatten_json(data, Root, <<>>)
        /\ Len(tables) = Len(out)
        /\ \A i \in 1..Len(out) :
              tables[i].name = out[i].name /\ tables[i].df.rows = out[i].rows

\* the responses 429, 429, 200 with the default factor
C1_Witness ==
    /\ outcomes = <<Response(429), Response(429), Response(200)>>
    /\ backoff_factor = <<3, 2>>
    /\ Len(Sleeps) = 2
    /\ pc = "done"

\* C2: a response that is not 200, not 429 and below 500 ends the call on the
\* attempt it arrives on: it is the last response, the request that got it is
\* the last event (no sleep follows, no request follows), and nothing is
\* returned.
C2_HardFailIsImmediate ==
    \A i \in 1..Len(outcomes) :
        Hard(outcomes[i]) =>
            /\ i = Len(outcomes)
            /\ pc = "hard_fail"
            /\ log[Len(log)] = Request(i)
            /\ Len(Requests) = i
            /\ Len(Sleeps) = i - 1
            /\ tables = <<>>
            /\ todo = <<>>
            /\ files = <<>>

\* a 404 on the third attempt
C2_Witness ==
    /\ pc = "hard_fail"
    /\ Len(outcomes) = 3
    /\ outcomes[3] = Response(404)
    /\ Len(Sleeps) = 2

\* C3: 429, >= 500 and network exceptions use up the same attempts: there are
\* never more than max_retries requests, and once max_retries transient
\* failures of any mix have come the call has made exactly max_retries
\* requests, has raised retries exhausted and has returned nothing.
C3_TransientFailuresShareAttempts ==
    /\ Len(Requests) <= max_retries
    /\ (/\ FetchCalled
        /\ Len(outcomes) = max_retries
        /\ \A i \in 1..Len(outcomes) : Transient(outcomes[i]))
       =>
        /\ pc = "exhausted"
        /\ Len(Requests) = max_retries
        /\ tables = <<>>
        /\ files = <<>>
    /\ pc = "exhausted" =>
        /\ Len(outcomes) = max_retries
        /\ \A i \in 1..Len(outcomes) : Transient(outcomes[i])

\* one failure of each kind, then exhausted
C3_Witness ==
    /\ pc = "exhausted"
    /\ max_retries = 3
    /\ \E i, j, k \in 1..3 :
        /\ outcomes[i] = Response(429)
        /\ outcomes[j] = Response(500)
        /\ outcomes[k] = RequestException

\* C7: when save_tables_to_csv is done there is one file per table with at
\* least one row: each such table is in its own file <sanitised name>.csv, the
\* files number as many as those tables, and a table with no rows has no
\* file.
C7_OneFilePerNonEmptyTable ==
    pc = "done" =>
        LET nonEmpty == {i \in 1..Len(tables) : Len(tables[i].df.rows) >= 1}
        IN  /\ Len(files) = Cardinality(nonEmpty)
            /\ \A i \in nonEmpty :
                  \E j \in 1..Len(files) :
                      /\ files[j].path = FilePath(tables[i].name)
                      /\ files[j].df = tables[i].df
            /\ \A j \in 1..Len(files) :
                  \E i \in nonEmpty : files[j].path = FilePath(tables[i].name)

\* C8: a file is written only once the fetcher has returned: a run whose
\* fetch ended in a hard fail or in retries exhausted has no file, and
\* wherever there is a file the last response was a 200 and the run is in the
\* writer or past it.
C8_NoFileUnlessFetched ==
    /\ pc \in {"hard_fail", "exhausted", "attribute_error"} =>
          files = <<>> /\ todo = <<>> /\ tables = <<>>
    /\ files # <<>> =>
          /\ FetchReturned
          /\ outcomes # <<>>
          /\ outcomes[Len(outcomes)] = Response(200)
          /\ \A i \in 1..Len(outcomes) : ~Hard(outcomes[i])

\* a hard fail after a retry
C8_Witness ==
    /\ pc = "hard_fail"
    /\ Len(outcomes) = 2
    /\ Hard(outcomes[2])
    /\ files = <<>>

\* C10: there are as many sleeps as transient failures, the failure of the
\* last allowed attempt included: a run that ends in retries exhausted has
\* slept max_retries times, the last sleep lasting
\* backoff_factor^max_retries, after the last request and before the error.
C10_SleepPerTransientFailure ==
    /\ Len(Sleeps) = TransientCount
    /\ pc = "exhausted" =>
        /\ Len(Sleeps) = max_retries
        /\ Len(log) = 2 * max_retries
        /\ max_retries >= 1 =>
              /\ log[Len(log) - 1] = Request(max_retries)
              /\ log[Len(log)].e = "sleep"
              /\ RatEq(log[Len(log)].wait, FactorToThe(max_retries))

C10_Witness ==
    /\ pc = "exhausted"
    /\ max_retries = 3
    /\ Len(Sleeps) = 3
    /\ log[Len(log)].e = "sleep"

====
